---- MODULE Spec2Model ----
(***************************************************************************)
(* Model of hpp-constraints:                                               *)
(*   - the BlockIndex interval algebra (src/src/matrix-view.cc),           *)
(*   - the HierarchicalIterative solver engine, its saturation policies    *)
(*     and its comparison mapping                                          *)
(*     (src/src/solver/hierarchical-iterative.cc).                         *)
(*                                                                         *)
(* A segment_t (std::pair<size_type,size_type>) is the tuple               *)
(* <<first, second>> = <<start, length>>; a segments_t is a sequence.      *)
(***************************************************************************)
EXTENDS Integers, Sequences, FiniteSets, TLC

(***************************************************************************)
(* Bounds of the model.                                                    *)
(***************************************************************************)
\* indices range over 0 .. MaxIdx-1: every segment has first + second <= MaxIdx
MaxIdx == 4
\* longest sequence of segments given to sort/shrink
MaxLen == 3
\* longest sequence of segments given to the set overloads of difference
MaxSetLen == 2
\* the bounds lb[i], ub[i] of the Bounds policy range over 0 .. MaxBound and
\* the coordinates of a configuration over -1 .. MaxBound + 1
MaxBound == 2
\* most rows (output-derivative size) of the level given to applyComparison
MaxRows == 2
\* error values range over -MaxVal .. MaxVal
MaxVal == 1
\* the inequality threshold ranges over 0 .. MaxThr
MaxThr == 1
\* priorities given to add range over 0 .. MaxPriority
MaxPriority == 1

VARIABLES
  biOp,    \* BlockIndex: name of the function called
  biA,     \* BlockIndex: its first argument
  biB,     \* BlockIndex: its second argument (<<>> when it has none)
  biOut,   \* BlockIndex: the value it returned (<<>> until it has)
  biDone,  \* BlockIndex: TRUE once the call has returned
  saturate_,   \* engine: the saturation policy, [kind, lb, ub]
  satOp,       \* "saturate" (saturate_->saturate) or "integrate"
  satFrom,     \* the argument q of saturate, from of integrate
  satVelocity, \* the argument velocity of integrate
  qSat,        \* the output argument: qSat of saturate, result of integrate
  saturation_, \* engine: the saturation signs
  satRet,      \* the value returned
  satDone,     \* TRUE once the call has returned
  cmpIn,       \* applyComparison: [computeJac, comparison, indices, value,
               \*                   jacobian, thr] at the call
  cmpOut,      \* applyComparison: [value, jacobian] at the return
  cmpDone,     \* TRUE once the call has returned
  solver,      \* the engine (a HierarchicalIterative object)
  other,       \* a second engine on the same configuration space
  ndebug,      \* TRUE in a build with NDEBUG (assert compiled out)
  call,        \* the last call: its name, arguments and outcome
  fnOp,        \* a single call on given level data: the function called
  fnIn,        \* its arguments and the data it reads
  fnOut,       \* what it returned or wrote
  fnDone,      \* TRUE once the call has returned
  it           \* the iterations of a solve: the levels, the free variables
               \* and the step vectors of the engine

biVars == <<biOp, biA, biB, biOut, biDone>>
satVars == <<saturate_, satOp, satFrom, satVelocity, qSat, saturation_,
             satRet, satDone>>

cmpVars == <<cmpIn, cmpOut, cmpDone>>

engVars == <<solver, other, ndebug, call>>

fnVars == <<fnOp, fnIn, fnOut, fnDone>>

itVars == <<it>>

vars == <<biVars, satVars, cmpVars, engVars, fnVars, itVars>>

(***************************************************************************)
(* Generic helpers.                                                        *)
(***************************************************************************)
Max(x, y) == IF x >= y THEN x ELSE y
Min(x, y) == IF x <= y THEN x ELSE y

\* all sequences over S of length 0 .. n
SeqsUpTo(S, n) == UNION {[1..k -> S] : k \in 0..n}

\* the half-open range [first, first+second) of a segment
SegIndices(s) == {i \in 0..(MaxIdx + MaxIdx) : s[1] <= i /\ i < s[1] + s[2]}

\* the index set a sequence of segments covers
IndexSet(a) == UNION {SegIndices(a[i]) : i \in 1..Len(a)}

\* every segment_t of the model
Segments == {<<f, l>> : f \in 0..MaxIdx, l \in 0..MaxIdx} \cap
            {s \in (0..MaxIdx) \X (0..MaxIdx) : s[1] + s[2] <= MaxIdx}

SegSeqs == SeqsUpTo(Segments, MaxLen)

(***************************************************************************)
(* internal::BlockIndexComp<lfirst, rfirst> and internal::BlockIndexCompFull *)
(* (declared in matrix-view.hh): compare the start (xfirst) or the end     *)
(* (not xfirst) of the left segment with that of the right one.            *)
(***************************************************************************)
BlockIndexComp(lfirst, rfirst, a, b) ==
  (IF lfirst THEN a[1] ELSE a[1] + a[2]) < (IF rfirst THEN b[1] ELSE b[1] + b[2])

BlockIndexCompFull(a, b) ==
  a[1] < b[1] \/ (a[1] = b[1] /\ a[2] < b[2])

(***************************************************************************)
(* BlockIndex::sort: std::sort with BlockIndexCompFull.  Two segments that *)
(* are equivalent under this order are equal, so the sorted sequence is    *)
(* unique; it is built here by insertion.                                  *)
(***************************************************************************)
RECURSIVE InsertSorted(_, _)
InsertSorted(s, x) ==
  IF s = <<>> THEN <<x>>
  ELSE IF BlockIndexCompFull(x, Head(s)) THEN <<x>> \o s
       ELSE <<Head(s)>> \o InsertSorted(Tail(s), x)

RECURSIVE sort(_)
sort(a) ==
  IF a = <<>> THEN <<>>
  ELSE InsertSorted(sort(SubSeq(a, 1, Len(a) - 1)), a[Len(a)])

(***************************************************************************)
(* BlockIndex::shrink: e1, e2 are the positions of the two iterators.      *)
(***************************************************************************)
RemoveAt(a, i) == SubSeq(a, 1, i - 1) \o SubSeq(a, i + 1, Len(a))

\* mutant: the merged length forgets the length e1 already has
RECURSIVE shrinkLoopNoMax(_, _, _)
shrinkLoopNoMax(a, e1, e2) ==
  IF e2 > Len(a) THEN a
  ELSE IF ~BlockIndexComp(FALSE, TRUE, a[e1], a[e2])
       THEN shrinkLoopNoMax(
              RemoveAt([a EXCEPT ![e1] =
                          <<a[e1][1], a[e2][1] + a[e2][2] - a[e1][1]>>], e2),
              e1, e2)
       ELSE shrinkLoopNoMax(a, e2, e2 + 1)

RECURSIVE shrinkLoop(_, _, _)
shrinkLoop(a, e1, e2) ==
  IF e2 > Len(a) THEN a
  ELSE IF ~BlockIndexComp(FALSE, TRUE, a[e1], a[e2])
       THEN shrinkLoop(
              RemoveAt([a EXCEPT ![e1] =
                          <<a[e1][1],
                            Max(a[e1][2], a[e2][1] + a[e2][2] - a[e1][1])>>], e2),
              e1, e2)
       ELSE shrinkLoop(a, e2, e2 + 1)

shrink(a) == IF Len(a) < 2 THEN a ELSE shrinkLoop(a, 1, 2)

(***************************************************************************)
(* BlockIndex::overlap                                                     *)
(***************************************************************************)
overlap(a, b) ==
  IF a[2] = 0 THEN FALSE
  ELSE IF b[2] = 0 THEN FALSE
  ELSE LET aend == a[1] + a[2]
           bend == b[1] + b[2]
       IN  IF a[1] <= b[1] /\ b[1] < aend THEN TRUE
           ELSE IF a[1] < bend /\ bend <= aend THEN TRUE
           ELSE FALSE

(***************************************************************************)
(* BlockIndex::cardinal                                                    *)
(***************************************************************************)
RECURSIVE cardinal(_)
cardinal(a) == IF a = <<>> THEN 0 ELSE a[1][2] + cardinal(Tail(a))

(***************************************************************************)
(* BlockIndex::sum (two segments)                                          *)
(***************************************************************************)
sumOrdered(a, b) ==
  IF a[1] + a[2] >= b[1]
  THEN <<  <<a[1], Max(a[2], b[1] + b[2] - a[1])>>  >>
  ELSE <<a, b>>

sum(a, b) == IF a[1] > b[1] THEN sumOrdered(b, a) ELSE sumOrdered(a, b)

(***************************************************************************)
(* BlockIndex::difference, the four overloads:                             *)
(*   differenceII (segment, segment)    differenceSI (segments, segment)   *)
(*   differenceIS (segment, segments)   differenceSS (segments, segments)  *)
(***************************************************************************)
\* mutant: the right remainder starts at a.first instead of max(a.first, bend)
differenceIINoClip(a, b) ==
  IF a[2] = 0 THEN <<>>
  ELSE IF b[2] = 0 THEN <<a>>
  ELSE LET aend == a[1] + a[2]
           bend == b[1] + b[2]
           left == IF a[1] < b[1]
                   THEN << <<a[1], Min(aend, b[1]) - a[1]>> >> ELSE <<>>
           right == IF bend < aend
                    THEN << <<a[1], aend - a[1]>> >> ELSE <<>>
       IN  left \o right

differenceII(a, b) ==
  IF a[2] = 0 THEN <<>>
  ELSE IF b[2] = 0 THEN <<a>>
  ELSE LET aend == a[1] + a[2]
           bend == b[1] + b[2]
           left == IF a[1] < b[1]
                   THEN << <<a[1], Min(aend, b[1]) - a[1]>> >> ELSE <<>>
           right == IF bend < aend
                    THEN << <<Max(a[1], bend), aend - Max(a[1], bend)>> >>
                    ELSE <<>>
       IN  left \o right

\* std::upper_bound (a, b, comp): position of the first element e of a with
\* comp (b, e), Len(a)+1 (the end iterator) when there is none.  a must be
\* partitioned with respect to comp (b, .), which UpperBoundOk states.
upper_bound(a, b, lfirst, rfirst) ==
  LET hits == {i \in 1..Len(a) : BlockIndexComp(lfirst, rfirst, b, a[i])}
  IN  IF hits = {} THEN Len(a) + 1
      ELSE CHOOSE i \in hits : \A j \in hits : i <= j

RECURSIVE ConcatDiffII(_, _, _, _)
ConcatDiffII(a, b, from, to) ==
  IF from >= to THEN <<>>
  ELSE differenceII(a[from], b) \o ConcatDiffII(a, b, from + 1, to)

\* the assertion of difference (segments, segment), line 107
differenceSIAssert(a, b) ==
  LET first == upper_bound(a, b, TRUE, FALSE)
      last  == upper_bound(a, b, FALSE, TRUE)
  IN  \/ first = last
      \/ last = Len(a) + 1
      \/ (first # Len(a) + 1 /\ a[first][1] + a[first][2] >= a[last][1])

differenceSI(a, b) ==
  LET first == upper_bound(a, b, TRUE, FALSE)
      last  == upper_bound(a, b, FALSE, TRUE)
  IN  SubSeq(a, 1, first - 1) \o ConcatDiffII(a, b, first, last)
        \o SubSeq(a, last, Len(a))

RECURSIVE differenceISLoop(_, _, _)
differenceISLoop(diff, b, i) ==
  IF i > Len(b) THEN diff
  ELSE differenceISLoop(differenceSI(diff, b[i]), b, i + 1)

differenceIS(a, b) == differenceISLoop(<<a>>, b, 1)

RECURSIVE differenceSS(_, _)
differenceSS(a, b) ==
  IF a = <<>> THEN <<>>
  ELSE differenceIS(Head(a), b) \o differenceSS(Tail(a), b)

(***************************************************************************)
(* Classes of inputs.                                                      *)
(***************************************************************************)
\* canonical form: sorted by start, no empty segment, and no two consecutive
\* segments that overlap or touch (e1.end < e2.start)
Canonical(a) ==
  /\ \A i \in 1..Len(a) : a[i][2] > 0
  /\ \A i \in 1..(Len(a) - 1) : a[i][1] + a[i][2] < a[i + 1][1]

\* the ranges std::upper_bound may be applied to in difference (segments,
\* segment): starts and ends are non-decreasing and consecutive segments do
\* not overlap.  Canonical sequences are of this class; it also holds
\* sequences with empty or touching segments.
Ordered(a) ==
  \A i \in 1..(Len(a) - 1) : a[i][1] + a[i][2] <= a[i + 1][1]

OrderedSeqs == {a \in SeqsUpTo(Segments, MaxSetLen) : Ordered(a)}

(***************************************************************************)
(* The configuration space of the model is the vector space R^2:           *)
(* nq = nv = 2 and q + v is the sum of vectors.                            *)
(***************************************************************************)
ConfigSpace == [nq |-> 1 + 1, nv |-> 1 + 1]

(***************************************************************************)
(* Comparison types and the per-level bookkeeping of                       *)
(* HierarchicalIterative::add, compare and applyComparison.                *)
(* Rows are numbered from 0 as in the code; row j of a vector v is v[j+1]. *)
(***************************************************************************)
ComparisonTypes == {"Equality", "EqualToZero", "Superior", "Inferior"}

\* Data (): the per-level data of a level without constraints; space holds
\* nq and nv of the output space of the level
DefaultData ==
  [comparison |-> <<>>, inequalityIndices |-> <<>>, equalityIndices |-> <<>>,
   space |-> [nq |-> 0, nv |-> 0], rightHandSide |-> <<>>, maxRank |-> 0]

\* the loop of add over the comparison types of the new constraint: d holds
\* the fields comparison, inequalityIndices and equalityIndices of the level
RECURSIVE addComparison(_, _, _)
addComparison(d, comp, i) ==
  IF i > Len(comp) THEN d
  ELSE LET size == Len(d.comparison)
           ineq == IF comp[i] = "Superior" \/ comp[i] = "Inferior"
                   THEN Append(d.inequalityIndices, size)
                   ELSE d.inequalityIndices
           eq   == IF comp[i] # "Superior" /\ comp[i] # "Inferior"
                      /\ comp[i] = "Equality"
                   THEN Append(d.equalityIndices, <<size, 1>>)
                   ELSE d.equalityIndices
       IN  addComparison([d EXCEPT !.comparison = Append(d.comparison, comp[i]),
                                   !.inequalityIndices = ineq,
                                   !.equalityIndices = eq],
                         comp, i + 1)

ZeroRow == [c \in 1..ConfigSpace.nv |-> 0]

\* mutant: the test of the Superior case is the one of the Inferior case
compareSwapped(Superior, ComputeJac, val, jac, thr) ==
  IF (Superior /\ (0 - thr) < val) \/ (~Superior /\ val < thr)
  THEN [val |-> IF Superior THEN val - thr ELSE val + thr, jac |-> jac]
  ELSE [val |-> 0, jac |-> IF ComputeJac THEN ZeroRow ELSE jac]

\* compare<Superior, ComputeJac> (val, jac, thr): val and the row jac after
compare(Superior, ComputeJac, val, jac, thr) ==
  IF (Superior /\ val < thr) \/ (~Superior /\ (0 - thr) < val)
  THEN [val |-> IF Superior THEN val - thr ELSE val + thr, jac |-> jac]
  ELSE [val |-> 0, jac |-> IF ComputeJac THEN ZeroRow ELSE jac]

\* applyComparison<ComputeJac>: the loop over indices from position i on;
\* vj is [value, jacobian]
RECURSIVE applyComparisonLoop(_, _, _, _, _, _)
applyComparisonLoop(ComputeJac, comparison, indices, vj, thr, i) ==
  IF i > Len(indices) THEN vj
  ELSE LET j == indices[i]
           r == compare(comparison[j + 1] = "Superior", ComputeJac,
                        vj.value[j + 1], vj.jacobian[j + 1], thr)
           next == IF comparison[j + 1] = "Superior"
                      \/ comparison[j + 1] = "Inferior"
                   THEN [value |-> [vj.value EXCEPT ![j + 1] = r.val],
                         jacobian |-> [vj.jacobian EXCEPT ![j + 1] = r.jac]]
                   ELSE vj
       IN  applyComparisonLoop(ComputeJac, comparison, indices, next, thr, i + 1)

applyComparison(ComputeJac, comparison, indices, value, jacobian, thr) ==
  applyComparisonLoop(ComputeJac, comparison, indices,
                      [value |-> value, jacobian |-> jacobian], thr, 1)

\* rows of a Jacobian: one that is zero and one that is not
JacRows == {ZeroRow, [c \in 1..ConfigSpace.nv |-> IF c = 1 THEN 1 ELSE 0 - 1]}
ErrorValues == (0 - MaxVal)..MaxVal
Thresholds == 0..MaxThr

(***************************************************************************)
(* Saturation policies (namespace saturation) and                          *)
(* HierarchicalIterative::integrate.                                       *)
(***************************************************************************)
Coords == 1..ConfigSpace.nq
BoundValues == 0..MaxBound
ConfigValues == (0 - 1)..(MaxBound + 1)
Configs == [Coords -> ConfigValues]
Velocities == [1..ConfigSpace.nv -> {0 - 1, 0, 1}]
ZeroSigns == [i \in 1..ConfigSpace.nv |-> 0]

\* mutant: the bounds themselves are taken for interior values
clampStrict(lb, ub, v) ==
  IF v < lb THEN [vsat |-> lb, s |-> 0 - 1, ret |-> TRUE]
  ELSE IF v > ub THEN [vsat |-> ub, s |-> 1, ret |-> TRUE]
  ELSE [vsat |-> v, s |-> 0, ret |-> FALSE]

\* saturation::clamp: the outputs vsat and s and the value returned
clamp(lb, ub, v) ==
  IF v <= lb THEN [vsat |-> lb, s |-> 0 - 1, ret |-> TRUE]
  ELSE IF v >= ub THEN [vsat |-> ub, s |-> 1, ret |-> TRUE]
  ELSE [vsat |-> v, s |-> 0, ret |-> FALSE]

\* saturation::Base::saturate
BaseSaturate(q) ==
  [qSat |-> q, saturation |-> ZeroSigns, ret |-> FALSE]

\* saturation::Bounds::saturate
BoundsSaturate(lb, ub, q) ==
  [qSat |-> [i \in Coords |-> clamp(lb[i], ub[i], q[i]).vsat],
   saturation |-> [i \in Coords |-> clamp(lb[i], ub[i], q[i]).s],
   ret |-> \E i \in Coords : clamp(lb[i], ub[i], q[i]).ret]

\* saturate_->saturate (q, qSat, saturation): the virtual call
saturate(policy, q) ==
  IF policy.kind = "Bounds" THEN BoundsSaturate(policy.lb, policy.ub, q)
  ELSE BaseSaturate(q)

\* HierarchicalIterative::integrate: result = from + velocity, saturated in
\* place
integrate(policy, from, velocity) ==
  saturate(policy, [i \in Coords |-> from[i] + velocity[i]])

\* the policies an engine may hold: none (Base), or Bounds with lb <= ub
BoundsPolicies ==
  {p \in [kind : {"Bounds"}, lb : [Coords -> BoundValues],
                             ub : [Coords -> BoundValues]] :
     \A i \in Coords : p.lb[i] <= p.ub[i]}

Policies ==
  {[kind |-> "Base", lb |-> ZeroSigns, ub |-> ZeroSigns]} \cup BoundsPolicies

(***************************************************************************)
(* The engine, HierarchicalIterative.                                      *)
(*                                                                         *)
(* A function (DifferentiableFunctionPtr_t) is [ptr, name, nq, nv]: ptr is *)
(* the identity of the object, which orders the keys of the maps           *)
(* priority_, iq_ and iv_; name is its value, which operator== compares.   *)
(* A constraint (ImplicitPtr_t) is [function, comp].  Levels, rows and     *)
(* offsets are numbered from 0 as in the code: level i is stacks_[i + 1].  *)
(***************************************************************************)
\* DifferentiableFunction::operator==: equality by value
FunctionEq(f, g) == f.name = g.name

\* Implicit::operator==: the functions are equal and so are the comparison
\* types
ImplicitEq(a, b) == FunctionEq(a.function, b.function) /\ a.comp = b.comp

\* Implicit::checkRightHandSide: the rows that are not Equality rows are 0
checkRightHandSide(constraint, rhs) ==
  \A k \in 1..Len(rhs) : constraint.comp[k] # "Equality" => rhs[k] = 0

\* the value of a function at a configuration
FunctionValue(f, config) ==
  [k \in 1..f.nq |-> config[((k - 1) % ConfigSpace.nq) + 1]]

\* Implicit::rightHandSideFromConfig: the value of the function on the
\* Equality rows, 0 on the others
ImplicitRightHandSideFromConfig(constraint, config) ==
  [k \in 1..constraint.function.nq |->
     IF constraint.comp[k] = "Equality"
     THEN FunctionValue(constraint.function, config)[k] ELSE 0]

\* std::map: the empty map, operator[] as an lvalue, and
\* find_if (begin, end, [&f](arg) { return *arg.first == *f; }), which walks
\* the keys in the order of the pointers; End is the end iterator
EmptyMap == [k \in {} |-> 0]
End == [ptr |-> 0, name |-> "end", nq |-> 0, nv |-> 0]
MapSet(m, k, v) == [x \in (DOMAIN m) \cup {k} |-> IF x = k THEN v ELSE m[x]]
FindIf(m, f) ==
  LET hits == {k \in DOMAIN m : FunctionEq(k, f)}
  IN  IF hits = {} THEN End
      ELSE CHOOSE k \in hits : \A h \in hits : k.ptr <= h.ptr

RECURSIVE SumNq(_)
SumNq(cs) == IF cs = <<>> THEN 0 ELSE Head(cs).function.nq + SumNq(Tail(cs))
RECURSIVE SumNv(_)
SumNv(cs) == IF cs = <<>> THEN 0 ELSE Head(cs).function.nv + SumNv(Tail(cs))
RECURSIVE SumDimension(_)
SumDimension(stacks) ==
  IF stacks = <<>> THEN 0 ELSE SumNv(Head(stacks)) + SumDimension(Tail(stacks))

\* HierarchicalIterative (configSpace).  Of the vectors saturation_ and
\* qSat_, whose coefficients the constructor does not set, the engine keeps
\* the sizes
HierarchicalIterative(configSpace) ==
  [squaredErrorThreshold_ |-> 0, inequalityThreshold_ |-> 0,
   maxIterations_ |-> 0, configSpace_ |-> configSpace,
   lastIsOptional_ |-> FALSE,
   freeVariables_ |-> <<<<0, configSpace.nv>>>>,
   saturationSize |-> configSpace.nv, qSatSize |-> configSpace.nq,
   stacks_ |-> <<>>, datas_ |-> <<>>, constraints_ |-> <<>>,
   priority_ |-> EmptyMap, iq_ |-> EmptyMap, iv_ |-> EmptyMap,
   dimension_ |-> 0, dq_ |-> <<>>]

\* the engine after HierarchicalIterative (configSpace) on R^2
NewEngine == HierarchicalIterative(ConfigSpace)

\* mutant: update keeps the right-hand side of every level
updateKeepRightHandSide(eng) ==
  [eng EXCEPT
     !.dimension_ = SumDimension(eng.stacks_),
     !.datas_ = [i \in 1..Len(eng.stacks_) |->
                   [eng.datas_[i] EXCEPT
                      !.space = [nq |-> SumNq(eng.stacks_[i]),
                                 nv |-> SumNv(eng.stacks_[i])],
                      !.rightHandSide =
                         [k \in 1..SumNq(eng.stacks_[i]) |->
                            IF k <= Len(eng.datas_[i].rightHandSide)
                            THEN eng.datas_[i].rightHandSide[k] ELSE 0],
                      !.maxRank = 0]],
     !.dq_ = [k \in 1..eng.configSpace_.nv |-> 0]]

\* HierarchicalIterative::update: the output space, the right-hand side (set
\* to the neutral element) and maxRank of every level, dimension_ and dq_
update(eng) ==
  [eng EXCEPT
     !.dimension_ = SumDimension(eng.stacks_),
     !.datas_ = [i \in 1..Len(eng.stacks_) |->
                   [eng.datas_[i] EXCEPT
                      !.space = [nq |-> SumNq(eng.stacks_[i]),
                                 nv |-> SumNv(eng.stacks_[i])],
                      !.rightHandSide = [k \in 1..SumNq(eng.stacks_[i]) |-> 0],
                      !.maxRank = 0]],
     !.dq_ = [k \in 1..eng.configSpace_.nv |-> 0]]

\* HierarchicalIterative::contains
contains(eng, numericalConstraint) ==
  \E i \in 1..Len(eng.constraints_) :
    ImplicitEq(eng.constraints_[i], numericalConstraint)

\* std::vector::resize (minSize, x): only ever grows here
Resize(v, minSize, x) ==
  IF Len(v) < minSize THEN v \o [i \in 1..(minSize - Len(v)) |-> x] ELSE v

\* the part of add after the test for a duplicate
addNew(eng, constraint, priority) ==
  LET f       == constraint.function
      minSize == priority + 1
      stacks1 == Resize(eng.stacks_, minSize, <<>>)
      datas1  == Resize(eng.datas_, minSize, DefaultData)
      d       == datas1[priority + 1]
      d1      == addComparison(d, constraint.comp, 1)
      d2      == [d1 EXCEPT !.equalityIndices = shrink(sort(d1.equalityIndices))]
  IN  update([eng EXCEPT
                !.priority_ = MapSet(eng.priority_, f, priority),
                !.iq_ = MapSet(eng.iq_, f, d.space.nq),
                !.iv_ = MapSet(eng.iv_, f, d.space.nv),
                !.stacks_ = [stacks1 EXCEPT
                               ![priority + 1] = Append(@, constraint)],
                !.datas_ = [datas1 EXCEPT ![priority + 1] = d2],
                !.constraints_ = Append(eng.constraints_, constraint)])

\* mutant: add without the test for a function already in the solver
addNoDuplicateTest(eng, constraint, priority) ==
  [eng |-> addNew(eng, constraint, priority), ret |-> TRUE, raised |-> FALSE]

\* HierarchicalIterative::add: the engine after, the value returned, and
\* whether std::logic_error was thrown
add(eng, constraint, priority) ==
  IF FindIf(eng.priority_, constraint.function) # End
  THEN [eng |-> eng, ret |-> FALSE, raised |-> TRUE]
  ELSE [eng |-> addNew(eng, constraint, priority), ret |-> TRUE,
        raised |-> FALSE]

\* HierarchicalIterative::merge: the loop over other.constraints_ from
\* position i on; an exception thrown by add leaves the loop
RECURSIVE mergeLoop(_, _, _)
mergeLoop(eng, oth, i) ==
  IF i > Len(oth.constraints_) THEN [eng |-> eng, raised |-> FALSE]
  ELSE LET c   == oth.constraints_[i]
           itp == FindIf(oth.priority_, c.function)
           priority == IF itp = End THEN 0 ELSE oth.priority_[itp]
           r   == add(eng, c, priority)
       IN  IF ~contains(eng, c)
           THEN IF r.raised THEN [eng |-> r.eng, raised |-> TRUE]
                ELSE mergeLoop(r.eng, oth, i + 1)
           ELSE mergeLoop(eng, oth, i + 1)

merge(eng, oth) == mergeLoop(eng, oth, 1)

\* v.segment (iq, nq) = x
SetSegment(v, iq, nq, x) ==
  [k \in 1..Len(v) |-> IF iq < k /\ k <= iq + nq THEN x[k - iq] ELSE v[k]]

\* mutant: a right-hand side that fails checkRightHandSide is refused
rightHandSideChecked(eng, constraint, rhs, NDEBUG) ==
  LET f     == constraint.function
      iqi   == FindIf(eng.iq_, f)
      prioi == FindIf(eng.priority_, f)
      i     == eng.priority_[prioi]
      d     == eng.datas_[i + 1]
      after == [eng EXCEPT !.datas_[i + 1].rightHandSide =
                  SetSegment(d.rightHandSide, eng.iq_[iqi], f.nq, rhs)]
  IN  IF iqi = End THEN [eng |-> eng, ret |-> FALSE, aborted |-> FALSE]
      ELSE IF prioi = End THEN [eng |-> eng, ret |-> FALSE, aborted |-> FALSE]
      ELSE IF ~checkRightHandSide(constraint, rhs)
           THEN [eng |-> eng, ret |-> FALSE, aborted |-> FALSE]
           ELSE [eng |-> after, ret |-> TRUE, aborted |-> FALSE]

\* HierarchicalIterative::rightHandSide (constraint, rightHandSide): the
\* engine after, the value returned, and whether the assertion made after
\* the right-hand side is stored has failed (it is tested in a build without
\* NDEBUG only)
rightHandSide(eng, constraint, rhs, NDEBUG) ==
  LET f     == constraint.function
      iqi   == FindIf(eng.iq_, f)
      prioi == FindIf(eng.priority_, f)
      i     == eng.priority_[prioi]
      d     == eng.datas_[i + 1]
      after == [eng EXCEPT !.datas_[i + 1].rightHandSide =
                  SetSegment(d.rightHandSide, eng.iq_[iqi], f.nq, rhs)]
  IN  IF iqi = End THEN [eng |-> eng, ret |-> FALSE, aborted |-> FALSE]
      ELSE IF prioi = End THEN [eng |-> eng, ret |-> FALSE, aborted |-> FALSE]
      ELSE IF ~NDEBUG /\ ~checkRightHandSide(constraint, rhs)
           THEN [eng |-> after, ret |-> FALSE, aborted |-> TRUE]
           ELSE [eng |-> after, ret |-> TRUE, aborted |-> FALSE]

\* HierarchicalIterative::rightHandSideFromConfig (constraint, config)
rightHandSideFromConfig(eng, constraint, config) ==
  LET f     == constraint.function
      iqi   == FindIf(eng.iq_, f)
      prioi == FindIf(eng.priority_, f)
      i     == eng.priority_[prioi]
      d     == eng.datas_[i + 1]
      after == [eng EXCEPT !.datas_[i + 1].rightHandSide =
                  SetSegment(d.rightHandSide, eng.iq_[iqi], f.nq,
                             ImplicitRightHandSideFromConfig(constraint, config))]
  IN  IF iqi = End THEN [eng |-> eng, ret |-> FALSE, aborted |-> FALSE]
      ELSE IF prioi = End THEN [eng |-> eng, ret |-> FALSE, aborted |-> FALSE]
      ELSE [eng |-> after, ret |-> TRUE, aborted |-> FALSE]

\* HierarchicalIterative::getRightHandSide (constraint, rightHandSide): the
\* value returned and the vector written
getRightHandSide(eng, constraint) ==
  LET f    == constraint.function
      itp  == FindIf(eng.priority_, f)
      itIq == FindIf(eng.iq_, f)
      d    == eng.datas_[eng.priority_[itp] + 1]
  IN  IF itp = End THEN [ret |-> FALSE, rightHandSide |-> <<>>]
      ELSE IF itIq = End THEN [ret |-> FALSE, rightHandSide |-> <<>>]
      ELSE [ret |-> TRUE,
            rightHandSide |-> SubSeq(d.rightHandSide, eng.iq_[itIq] + 1,
                                     eng.iq_[itIq] + f.nq)]

(***************************************************************************)
(* The constraints and arguments of the model: two functions f and g, f    *)
(* held by two objects that compare equal, and three constraints.          *)
(***************************************************************************)
FunctionF  == [ptr |-> 1, name |-> "f", nq |-> 1, nv |-> 1]
FunctionF2 == [ptr |-> 2, name |-> "f", nq |-> 1, nv |-> 1]
FunctionG  == [ptr |-> 3, name |-> "g", nq |-> 2, nv |-> 2]

Constraints ==
  {[function |-> FunctionF,  comp |-> <<"Equality">>],
   [function |-> FunctionF2, comp |-> <<"Superior">>],
   [function |-> FunctionG,  comp |-> <<"Equality", "Inferior">>]}

Priorities == 0..MaxPriority
RhsValues(constraint) == [1..constraint.function.nq -> {0, 1}]
EngineConfigs == [Coords -> {0, 1}]

(***************************************************************************)
(* The specifications.  Each is about one part of the program; the         *)
(* variables of the other parts keep the values below.                     *)
(***************************************************************************)
IdleBlockIndex ==
  /\ biOp = "none" /\ biA = <<>> /\ biB = <<>> /\ biOut = <<>> /\ biDone = FALSE

IdleSaturation ==
  /\ saturate_ = [kind |-> "Base", lb |-> ZeroSigns, ub |-> ZeroSigns]
  /\ satOp = "none"
  /\ satFrom = ZeroSigns
  /\ satVelocity = ZeroSigns
  /\ qSat = ZeroSigns
  /\ saturation_ = ZeroSigns
  /\ satRet = FALSE
  /\ satDone = FALSE

IdleComparison ==
  /\ cmpIn = [computeJac |-> FALSE, comparison |-> <<>>, indices |-> <<>>,
              value |-> <<>>, jacobian |-> <<>>, thr |-> 0]
  /\ cmpOut = [value |-> <<>>, jacobian |-> <<>>]
  /\ cmpDone = FALSE

IdleCalls ==
  /\ fnOp = "none" /\ fnIn = <<>> /\ fnOut = <<>> /\ fnDone = FALSE

NoIteration == [op |-> "none"]

IdleIterations == it = NoIteration

NoConstraint == [function |-> End, comp |-> <<>>]

\* hadRightHandSide tells, of a call of add, whether a right-hand side other
\* than the neutral element was stored in the engine when it was called
NoCall ==
  [op |-> "none", constraint |-> NoConstraint, rhs |-> <<>>,
   ret |-> FALSE, raised |-> FALSE, aborted |-> FALSE,
   hadRightHandSide |-> FALSE]

IdleEngine ==
  /\ solver = NewEngine
  /\ other = NewEngine
  /\ ndebug = TRUE
  /\ call = NoCall

InitSaturation ==
  /\ IdleBlockIndex
  /\ IdleComparison
  /\ IdleEngine
  /\ IdleCalls
  /\ IdleIterations
  /\ saturate_ \in Policies
  /\ \/ satOp = "saturate" /\ satFrom \in Configs /\ satVelocity = ZeroSigns
     \/ satOp = "integrate" /\ satFrom \in Configs /\ satVelocity \in Velocities
  /\ qSat = ZeroSigns
  /\ saturation_ = ZeroSigns
  /\ satRet = FALSE
  /\ satDone = FALSE

SatReturns(op, r) ==
  /\ satOp = op
  /\ ~satDone
  /\ qSat' = r.qSat
  /\ saturation_' = r.saturation
  /\ satRet' = r.ret
  /\ satDone' = TRUE
  /\ UNCHANGED <<saturate_, satOp, satFrom, satVelocity>>
  /\ UNCHANGED <<biVars, cmpVars, engVars, fnVars, itVars>>

CallSaturate == SatReturns("saturate", saturate(saturate_, satFrom))
CallIntegrate ==
  SatReturns("integrate", integrate(saturate_, satFrom, satVelocity))

NextSaturation ==
  \/ CallSaturate
  \/ CallIntegrate

SpecSaturation == InitSaturation /\ [][NextSaturation]_vars

\* a call of applyComparison by computeValue: the comparison vector and the
\* inequality indices of the level are those add has built
InitComparison ==
  /\ IdleBlockIndex
  /\ IdleSaturation
  /\ IdleEngine
  /\ IdleCalls
  /\ IdleIterations
  /\ \E n \in 0..MaxRows :
       \E comp \in [1..n -> ComparisonTypes] :
         cmpIn \in [computeJac : BOOLEAN,
                    comparison : {addComparison(DefaultData, comp, 1).comparison},
                    indices : {addComparison(DefaultData, comp, 1).inequalityIndices},
                    value : [1..n -> ErrorValues],
                    jacobian : [1..n -> JacRows],
                    thr : Thresholds]
  /\ cmpOut = [value |-> <<>>, jacobian |-> <<>>]
  /\ cmpDone = FALSE

CallApplyComparison ==
  /\ ~cmpDone
  /\ cmpOut' = applyComparison(cmpIn.computeJac, cmpIn.comparison, cmpIn.indices,
                               cmpIn.value, cmpIn.jacobian, cmpIn.thr)
  /\ cmpDone' = TRUE
  /\ UNCHANGED cmpIn
  /\ UNCHANGED <<biVars, satVars, engVars, fnVars, itVars>>

NextComparison == CallApplyComparison

SpecComparison == InitComparison /\ [][NextComparison]_vars

(***************************************************************************)
(* The engine: two engines on the same configuration space, solver and     *)
(* other.  Constraints are added to both, other is merged into solver, and *)
(* the right-hand sides of solver are set.  A failed assertion ends the    *)
(* process: nothing is called after it.                                    *)
(*                                                                         *)
(* SpecMerge builds the two engines and merges them.  SpecRightHandSide    *)
(* builds solver and sets its right-hand sides, in a build with or without *)
(* assertions; merge adds through add, so the engines it can build are     *)
(* those a sequence of add calls builds.                                   *)
(***************************************************************************)
InitEngine ==
  /\ IdleBlockIndex
  /\ IdleSaturation
  /\ IdleComparison
  /\ IdleCalls
  /\ IdleIterations
  /\ solver = NewEngine
  /\ other = NewEngine
  /\ ndebug \in BOOLEAN
  /\ call = NoCall

Add ==
  \E c \in Constraints, p \in Priorities :
    LET r == add(solver, c, p)
    IN  /\ ~call.aborted
        /\ solver' = r.eng
        /\ call' = [NoCall EXCEPT
                      !.op = "add", !.constraint = c,
                      !.ret = r.ret,
                      !.raised = r.raised,
                      !.hadRightHandSide =
                         \E i \in 1..Len(solver.datas_) :
                           \E k \in 1..Len(solver.datas_[i].rightHandSide) :
                             solver.datas_[i].rightHandSide[k] # 0]
        /\ UNCHANGED <<other, ndebug>>
        /\ UNCHANGED <<biVars, satVars, cmpVars, fnVars, itVars>>

OtherAdd ==
  \E c \in Constraints, p \in Priorities :
    LET r == add(other, c, p)
    IN  /\ ~call.aborted
        /\ other' = r.eng
        /\ call' = [NoCall EXCEPT !.op = "other.add", !.constraint = c,
                                  !.ret = r.ret,
                                  !.raised = r.raised]
        /\ UNCHANGED <<solver, ndebug>>
        /\ UNCHANGED <<biVars, satVars, cmpVars, fnVars, itVars>>

Merge ==
  LET r == merge(solver, other)
  IN  /\ ~call.aborted
      /\ solver' = r.eng
      /\ call' = [NoCall EXCEPT !.op = "merge", !.raised = r.raised]
      /\ UNCHANGED <<other, ndebug>>
      /\ UNCHANGED <<biVars, satVars, cmpVars, fnVars, itVars>>

RightHandSide ==
  \E c \in Constraints :
    \E rhs \in RhsValues(c) :
      LET r == rightHandSide(solver, c, rhs, ndebug)
      IN  /\ ~call.aborted
          /\ solver' = r.eng
          /\ call' = [NoCall EXCEPT !.op = "rightHandSide", !.constraint = c,
                                    !.rhs = rhs, !.ret = r.ret,
                                    !.aborted = r.aborted]
          /\ UNCHANGED <<other, ndebug>>
          /\ UNCHANGED <<biVars, satVars, cmpVars, fnVars, itVars>>

RightHandSideFromConfig ==
  \E c \in Constraints, q \in EngineConfigs :
    LET r == rightHandSideFromConfig(solver, c, q)
    IN  /\ ~call.aborted
        /\ solver' = r.eng
        /\ call' = [NoCall EXCEPT !.op = "rightHandSideFromConfig",
                                  !.constraint = c, !.ret = r.ret]
        /\ UNCHANGED <<other, ndebug>>
        /\ UNCHANGED <<biVars, satVars, cmpVars, fnVars, itVars>>

InitMerge == InitEngine /\ ndebug

NextMerge ==
  \/ Add
  \/ OtherAdd
  \/ Merge

SpecMerge == InitMerge /\ [][NextMerge]_vars

NextRightHandSide ==
  \/ Add
  \/ RightHandSide
  \/ RightHandSideFromConfig

SpecRightHandSide == InitEngine /\ [][NextRightHandSide]_vars

(***************************************************************************)
(* The BlockIndex operations are pure functions: a run starts with the     *)
(* arguments of one call (biOp names the function called) and the one step *)
(* of the run applies the function and records what it returned.           *)
(***************************************************************************)
InitBlockIndex ==
  /\ IdleSaturation
  /\ IdleComparison
  /\ IdleEngine
  /\ IdleCalls
  /\ IdleIterations
  /\ biDone = FALSE
  /\ biOut = <<>>
  /\ \/ biOp = "sort_shrink"  /\ biA \in SegSeqs     /\ biB = <<>>
     \/ biOp = "overlap"      /\ biA \in Segments    /\ biB \in Segments
     \/ biOp = "sum"          /\ biA \in Segments    /\ biB \in Segments
     \/ biOp = "differenceII" /\ biA \in Segments    /\ biB \in Segments
     \/ biOp = "differenceSI" /\ biA \in OrderedSeqs /\ biB \in Segments
     \/ biOp = "differenceIS" /\ biA \in Segments    /\ biB \in OrderedSeqs
     \/ biOp = "differenceSS" /\ biA \in OrderedSeqs /\ biB \in OrderedSeqs

Returns(op, out) ==
  /\ biOp = op
  /\ ~biDone
  /\ biOut' = out
  /\ biDone' = TRUE
  /\ UNCHANGED <<biOp, biA, biB>>
  /\ UNCHANGED <<satVars, cmpVars, engVars, fnVars, itVars>>

CallSortShrink   == Returns("sort_shrink", shrink(sort(biA)))
CallOverlap      == Returns("overlap", overlap(biA, biB))
CallSum          == Returns("sum", sum(biA, biB))
CallDifferenceII == Returns("differenceII", differenceII(biA, biB))
CallDifferenceSI == Returns("differenceSI", differenceSI(biA, biB))
CallDifferenceIS == Returns("differenceIS", differenceIS(biA, biB))
CallDifferenceSS == Returns("differenceSS", differenceSS(biA, biB))

NextBlockIndex ==
  \/ CallSortShrink
  \/ CallOverlap
  \/ CallSum
  \/ CallDifferenceII
  \/ CallDifferenceSI
  \/ CallDifferenceIS
  \/ CallDifferenceSS

SpecBlockIndex == InitBlockIndex /\ [][NextBlockIndex]_vars

(***************************************************************************)
(* Claims about the BlockIndex algebra (checked under SpecBlockIndex).     *)
(***************************************************************************)
DifferenceOps == {"differenceII", "differenceSI", "differenceIS", "differenceSS"}

\* an argument of difference as a sequence of segments
ArgA == IF biOp \in {"differenceII", "differenceIS"} THEN <<biA>> ELSE biA
ArgB == IF biOp \in {"differenceII", "differenceSI"} THEN <<biB>> ELSE biB

C2_OverlapIffIntersect ==
  (biDone /\ biOp = "overlap")
    => (biOut <=> (/\ biA[2] > 0
                   /\ biB[2] > 0
                   /\ SegIndices(biA) \cap SegIndices(biB) # {}))

\* C3: sort then shrink returns a sequence that is sorted by start, pairwise
\* non-overlapping, without consecutive segments e1.end >= e2.start, that
\* covers the index set of its input, and that sort then shrink leaves as
\* it is.
C3_SortShrinkCanonical ==
  (biDone /\ biOp = "sort_shrink")
    => /\ \A i \in 1..(Len(biOut) - 1) : biOut[i][1] <= biOut[i + 1][1]
       /\ \A i \in 1..Len(biOut) : \A j \in 1..Len(biOut) :
            i # j => SegIndices(biOut[i]) \cap SegIndices(biOut[j]) = {}
       /\ \A i \in 1..(Len(biOut) - 1) :
            ~(biOut[i][1] + biOut[i][2] >= biOut[i + 1][1])
       /\ IndexSet(biOut) = IndexSet(biA)
       /\ shrink(sort(biOut)) = biOut

\* an unsorted input in which a later segment lies inside an earlier one
C3_Witness ==
  /\ biDone /\ biOp = "sort_shrink"
  /\ Len(biA) = 3 /\ Len(biOut) = 2
  /\ sort(biA) # biA
  /\ \E i \in 1..3 : \E j \in 1..3 :
       /\ i # j /\ biA[j][2] > 0
       /\ biA[i][1] < biA[j][1]
       /\ biA[j][1] + biA[j][2] < biA[i][1] + biA[i][2]

\* C4: the results of shrink (after sort), sum and every difference overload
\* hold no length-0 segment, whatever length-0 segments their inputs hold.
C4_NoEmptySegmentInResult ==
  (biDone /\ biOp \in ({"sort_shrink", "sum"} \cup DifferenceOps))
    => \A i \in 1..Len(biOut) : biOut[i][2] # 0

(***************************************************************************)
(* Claims about saturation and integrate (checked under SpecSaturation).   *)
(***************************************************************************)
SaturateOfBounds == satDone /\ satOp = "saturate" /\ saturate_.kind = "Bounds"

\* C8 as stated: qSat lies in [lb, ub], the sign is 0 exactly when
\* lb < q < ub, -1 at or below the lower bound, +1 at or above the upper
\* bound, and saturate returns true iff some sign is non-zero.
C8_SignAsStated ==
  SaturateOfBounds =>
    /\ \A i \in Coords :
         /\ saturate_.lb[i] <= qSat[i] /\ qSat[i] <= saturate_.ub[i]
         /\ saturation_[i] = 0
              <=> (saturate_.lb[i] < satFrom[i] /\ satFrom[i] < saturate_.ub[i])
         /\ satFrom[i] <= saturate_.lb[i] => saturation_[i] = 0 - 1
         /\ satFrom[i] >= saturate_.ub[i] => saturation_[i] = 1
    /\ satRet <=> (\E i \in Coords : saturation_[i] # 0)

\* C8 (amended): for the Bounds policy with lb <= ub, qSat lies in [lb, ub],
\* the sign is 0 exactly when lb < q < ub, -1 exactly when q <= lb (also when
\* lb = ub = q), +1 exactly when q >= ub and q > lb, and saturate returns
\* true iff some sign is non-zero.
C8_SaturateBounds ==
  SaturateOfBounds =>
    /\ \A i \in Coords :
         /\ saturate_.lb[i] <= qSat[i] /\ qSat[i] <= saturate_.ub[i]
         /\ saturation_[i] = 0
              <=> (saturate_.lb[i] < satFrom[i] /\ satFrom[i] < saturate_.ub[i])
         /\ saturation_[i] = 0 - 1 <=> satFrom[i] <= saturate_.lb[i]
         /\ saturation_[i] = 1
              <=> (satFrom[i] >= saturate_.ub[i] /\ satFrom[i] > saturate_.lb[i])
    /\ satRet <=> (\E i \in Coords : saturation_[i] # 0)

\* one coordinate is interior, the other sits on a bound with lb = ub
C8_Witness ==
  /\ SaturateOfBounds
  /\ satRet
  /\ \E i \in Coords : saturation_[i] = 0
  /\ \E i \in Coords : /\ saturate_.lb[i] = saturate_.ub[i]
                       /\ satFrom[i] = saturate_.lb[i]
                       /\ saturation_[i] = 0 - 1

\* the configuration lies inside the bounds: every coordinate is an interior
\* value, lb < q < ub (the policy Base has no bounds)
InsideBounds(q) ==
  saturate_.kind = "Bounds" =>
    \A i \in Coords : saturate_.lb[i] < q[i] /\ q[i] < saturate_.ub[i]

\* C9: after integrate(from, velocity, out), out lies inside the bounds
\* (every coordinate strictly between its bounds) iff integrate returned
\* false.
C9_IntegrateInsideIffNotClipped ==
  (satDone /\ satOp = "integrate") => (InsideBounds(qSat) <=> ~satRet)

\* an integrate whose step leaves the bounds in one coordinate and is clipped
C9_Witness ==
  /\ satDone /\ satOp = "integrate" /\ saturate_.kind = "Bounds"
  /\ satRet
  /\ \E i \in Coords : /\ satFrom[i] <= saturate_.ub[i]
                       /\ satFrom[i] + satVelocity[i] > saturate_.ub[i]
                       /\ qSat[i] = saturate_.ub[i]
  /\ \E i \in Coords : /\ saturate_.lb[i] < qSat[i]
                       /\ qSat[i] < saturate_.ub[i]
                       /\ satVelocity[i] # 0

(***************************************************************************)
(* Claims about applyComparison (checked under SpecComparison).            *)
(***************************************************************************)
\* C10: every Superior row with value v and threshold thr becomes v - thr
\* with its Jacobian row kept when v < thr, and becomes 0 with its Jacobian
\* row zeroed otherwise (the row is written by the instantiation that
\* computes the Jacobian, ComputeJac = true; applyComparison<false> has no
\* Jacobian to maintain and leaves the matrix as it is); every Equality row
\* keeps its value and its Jacobian row.
C10_SuperiorAndEqualityRows ==
  cmpDone =>
    \A k \in 1..Len(cmpIn.comparison) :
      /\ cmpIn.comparison[k] = "Superior" =>
           IF cmpIn.value[k] < cmpIn.thr
           THEN /\ cmpOut.value[k] = cmpIn.value[k] - cmpIn.thr
                /\ cmpOut.jacobian[k] = cmpIn.jacobian[k]
           ELSE /\ cmpOut.value[k] = 0
                /\ cmpOut.jacobian[k] =
                     IF cmpIn.computeJac THEN ZeroRow ELSE cmpIn.jacobian[k]
      /\ cmpIn.comparison[k] = "Equality" =>
           /\ cmpOut.value[k] = cmpIn.value[k]
           /\ cmpOut.jacobian[k] = cmpIn.jacobian[k]

\* a level with an Equality row of non-zero value and a Superior row at its
\* threshold whose non-zero Jacobian row has been zeroed
C10_Witness ==
  /\ cmpDone /\ cmpIn.computeJac
  /\ cmpIn.comparison = <<"Equality", "Superior">>
  /\ cmpIn.value[1] # 0 /\ cmpIn.jacobian[1] # ZeroRow
  /\ cmpIn.thr > 0 /\ cmpIn.value[2] = cmpIn.thr
  /\ cmpIn.jacobian[2] # ZeroRow /\ cmpOut.jacobian[2] = ZeroRow

\* whether a function equal to f is among the functions of the engine
HasFunction(eng, f) ==
  \E i \in 1..Len(eng.constraints_) : FunctionEq(eng.constraints_[i].function, f)

NoEqualFunctions(eng) ==
  \A i, j \in 1..Len(eng.constraints_) :
    i # j => ~FunctionEq(eng.constraints_[i].function,
                         eng.constraints_[j].function)

\* C5: add of a constraint whose function compares equal to the function of
\* a constraint of the engine raises the logic error and leaves the engine
\* as it was (and add raises in no other case); in every reachable state,
\* whatever add and merge calls led to it, no two constraints of an engine
\* have equal functions.
C5_DuplicateAddRaises ==
  /\ [](NoEqualFunctions(solver) /\ NoEqualFunctions(other))
  /\ [][(call'.op = "add" =>
           /\ call'.raised = HasFunction(solver, call'.constraint.function)
           /\ call'.raised => solver' = solver)
        /\ (call'.op = "other.add" =>
           /\ call'.raised = HasFunction(other, call'.constraint.function)
           /\ call'.raised => other' = other)]_vars

\* add has raised for a constraint whose function is another object than,
\* and compares equal to, the function of a constraint of an engine that
\* holds two constraints at different levels
C5_Witness ==
  /\ call.op = "add" /\ call.raised
  /\ Len(solver.constraints_) = 2 /\ Len(solver.stacks_) = 2
  /\ solver.stacks_[1] # <<>>
  /\ \E i \in 1..2 :
       /\ FunctionEq(solver.constraints_[i].function, call.constraint.function)
       /\ solver.constraints_[i].function.ptr # call.constraint.function.ptr

\* C6: merge does not raise, and after it every constraint of other is
\* contained in the engine, at the level it has in other when merge has
\* added it.
C6_MergeCompletes ==
  call.op = "merge" =>
    /\ ~call.raised
    /\ \A i \in 1..Len(other.constraints_) :
         LET c == other.constraints_[i]
         IN  /\ contains(solver, c)
             /\ \E l \in 1..Len(solver.stacks_) :
                  \E k \in 1..Len(solver.stacks_[l]) :
                    ImplicitEq(solver.stacks_[l][k], c)

Setters == {"rightHandSide", "rightHandSideFromConfig"}

\* the right-hand sides stored in the engine, level by level
StoredRightHandSides(eng) ==
  [i \in 1..Len(eng.datas_) |-> eng.datas_[i].rightHandSide]

\* C7 as stated: a setter called with a constraint that is not in the
\* engine, or rightHandSide called with a right-hand side that fails
\* checkRightHandSide, returns false and leaves every stored right-hand
\* side as it was.
C7_BadInputReturnsFalse ==
  [][(/\ call'.op \in Setters
      /\ \/ ~HasFunction(solver, call'.constraint.function)
         \/ /\ call'.op = "rightHandSide"
            /\ ~checkRightHandSide(call'.constraint, call'.rhs))
     => /\ call'.ret = FALSE
        /\ ~call'.aborted
        /\ StoredRightHandSides(solver') = StoredRightHandSides(solver)]_vars

\* C7: a setter called with a constraint whose function is equal to no
\* function of the engine returns false and leaves the engine as it was.
\* Otherwise the right-hand side is stored in the segment of the function,
\* whether it passes checkRightHandSide or not, and the setter returns true;
\* only a build with assertions stops, after the store, when rightHandSide
\* was given a right-hand side that fails checkRightHandSide.
C7_SettersReturnFalseWhenAbsent ==
  [][call'.op \in Setters =>
       LET c == call'.constraint
       IN  IF ~HasFunction(solver, c.function)
           THEN call'.ret = FALSE /\ ~call'.aborted /\ solver' = solver
           ELSE /\ call'.aborted = (/\ call'.op = "rightHandSide"
                                    /\ ~ndebug
                                    /\ ~checkRightHandSide(c, call'.rhs))
                /\ call'.ret = ~call'.aborted
                /\ solver'.constraints_ = solver.constraints_
                /\ IF call'.op = "rightHandSide"
                   THEN getRightHandSide(solver', c).rightHandSide = call'.rhs
                   ELSE \E q \in EngineConfigs :
                          getRightHandSide(solver', c).rightHandSide =
                            ImplicitRightHandSideFromConfig(c, q)]_vars

\* rightHandSide has returned false for a constraint whose function is not
\* in an engine that stores a non-zero right-hand side
C7_Witness ==
  /\ call.op = "rightHandSide" /\ ~call.ret /\ ~call.aborted
  /\ ~HasFunction(solver, call.constraint.function)
  /\ \E k \in 1..Len(call.rhs) : call.rhs[k] # 0
  /\ \E i \in 1..Len(solver.datas_) :
       \E k \in 1..Len(solver.datas_[i].rightHandSide) :
         solver.datas_[i].rightHandSide[k] # 0

\* C11 as stated: every Inferior row with value v and threshold thr becomes 0
\* with its Jacobian row zeroed when -thr < v, and v + thr with its Jacobian
\* row kept otherwise.
C11_InferiorAsStated ==
  cmpDone =>
    \A k \in 1..Len(cmpIn.comparison) :
      cmpIn.comparison[k] = "Inferior" =>
        IF (0 - cmpIn.thr) < cmpIn.value[k]
        THEN /\ cmpOut.value[k] = 0
             /\ cmpOut.jacobian[k] =
                  IF cmpIn.computeJac THEN ZeroRow ELSE cmpIn.jacobian[k]
        ELSE /\ cmpOut.value[k] = cmpIn.value[k] + cmpIn.thr
             /\ cmpOut.jacobian[k] = cmpIn.jacobian[k]

\* C11: every Inferior row with value v and threshold thr becomes v + thr
\* with its Jacobian row kept when -thr < v, and becomes 0 with its Jacobian
\* row zeroed (by the instantiation that computes the Jacobian) otherwise,
\* that is when v <= -thr.
C11_InferiorRows ==
  cmpDone =>
    \A k \in 1..Len(cmpIn.comparison) :
      cmpIn.comparison[k] = "Inferior" =>
        IF (0 - cmpIn.thr) < cmpIn.value[k]
        THEN /\ cmpOut.value[k] = cmpIn.value[k] + cmpIn.thr
             /\ cmpOut.jacobian[k] = cmpIn.jacobian[k]
        ELSE /\ cmpOut.value[k] = 0
             /\ cmpOut.jacobian[k] =
                  IF cmpIn.computeJac THEN ZeroRow ELSE cmpIn.jacobian[k]

\* a level with two Inferior rows of non-zero Jacobian rows: one at minus the
\* threshold, which has been zeroed, and one above it, which has been kept
C11_Witness ==
  /\ cmpDone /\ cmpIn.computeJac
  /\ cmpIn.comparison = <<"Inferior", "Inferior">>
  /\ cmpIn.thr > 0
  /\ cmpIn.value[1] = 0 - cmpIn.thr /\ cmpIn.jacobian[1] # ZeroRow
  /\ cmpOut.value[1] = 0 /\ cmpOut.jacobian[1] = ZeroRow
  /\ cmpIn.value[2] = 0 /\ cmpIn.jacobian[2] # ZeroRow
  /\ cmpOut.value[2] = cmpIn.thr /\ cmpOut.jacobian[2] = cmpIn.jacobian[2]

(***************************************************************************)
(* computeValue.  The output space of every level is a vector space:       *)
(* output - rightHandSide is the difference of vectors and dDifference_dq1 *)
(* leaves the Jacobian as it is.  A level is given by what add and update  *)
(* have built (comparison, inequalityIndices, rightHandSide), the rows its *)
(* constraints declare active, and what its function returns at the        *)
(* configuration: the value output and the Jacobian fjacobian.  Every      *)
(* variable is free.                                                       *)
(***************************************************************************)
\* ImplicitConstraintSet::setInactiveRowsToZero: the rows that are not
\* active rows of their constraint are set to 0
setInactiveRowsToZero(activeRows, error) ==
  [k \in 1..Len(error) |-> IF activeRows[k] THEN error[k] ELSE 0]

\* d.activeRowsOfJ.rview (d.jacobian): the rows of the active rows
RECURSIVE rview(_, _, _)
rview(activeRows, jacobian, k) ==
  IF k > Len(jacobian) THEN <<>>
  ELSE IF activeRows[k]
       THEN <<jacobian[k]>> \o rview(activeRows, jacobian, k + 1)
       ELSE rview(activeRows, jacobian, k + 1)

\* mutant: the rows of type EqualToZero are set to 0
computeValueLevelZeroing(ComputeJac, d, thr) ==
  LET error0 == [k \in 1..Len(d.output) |-> d.output[k] - d.rightHandSide[k]]
      error1 == setInactiveRowsToZero(d.activeRows, error0)
      error2 == [k \in 1..Len(error1) |->
                   IF d.comparison[k] = "EqualToZero" THEN 0 ELSE error1[k]]
      jac    == IF ComputeJac THEN d.fjacobian ELSE d.jacobian
      r      == applyComparison(ComputeJac, d.comparison, d.inequalityIndices,
                                error2, jac, thr)
  IN  [error |-> r.value, jacobian |-> r.jacobian,
       reducedJ |-> IF ComputeJac THEN rview(d.activeRows, r.jacobian, 1)
                    ELSE d.reducedJ]

\* the body of the loop of computeValue<ComputeJac>: the error, the
\* Jacobian and the reduced Jacobian of the level after it
computeValueLevel(ComputeJac, d, thr) ==
  LET error0 == [k \in 1..Len(d.output) |-> d.output[k] - d.rightHandSide[k]]
      error1 == setInactiveRowsToZero(d.activeRows, error0)
      jac    == IF ComputeJac THEN d.fjacobian ELSE d.jacobian
      r      == applyComparison(ComputeJac, d.comparison, d.inequalityIndices,
                                error1, jac, thr)
  IN  [error |-> r.value, jacobian |-> r.jacobian,
       reducedJ |-> IF ComputeJac THEN rview(d.activeRows, r.jacobian, 1)
                    ELSE d.reducedJ]

\* computeValue<ComputeJac>: the loop over the levels
computeValue(ComputeJac, datas, thr) ==
  [i \in 1..Len(datas) |-> computeValueLevel(ComputeJac, datas[i], thr)]

\* the row the function of a level returns for each row of its Jacobian
FunctionJacobianRow == [c \in 1..ConfigSpace.nv |-> IF c = 1 THEN 1 ELSE 0 - 1]

\* right-hand sides that pass checkRightHandSide for the comparison types
ValidRightHandSides(comp) ==
  {rhs \in [1..Len(comp) -> {0, 1}] :
     \A k \in 1..Len(comp) : comp[k] # "Equality" => rhs[k] = 0}

\* the levels of n rows as add, update and the setters leave them, with the
\* value and the Jacobian of the function of the level
LevelsOfRows(n) ==
  UNION {
    [comparison : {addComparison(DefaultData, comp, 1).comparison},
     inequalityIndices : {addComparison(DefaultData, comp, 1).inequalityIndices},
     rightHandSide : ValidRightHandSides(comp),
     activeRows : [1..n -> BOOLEAN],
     output : [1..n -> ErrorValues],
     fjacobian : {[k \in 1..n |-> FunctionJacobianRow]},
     jacobian : {[k \in 1..n |-> ZeroRow]},
     reducedJ : {<<>>}] : comp \in [1..n -> ComparisonTypes]}

\* an engine of one level of at most MaxRows rows, or of two levels of one
\* row each, or without level
LevelStacks ==
  {<<>>} \cup UNION {[1..1 -> LevelsOfRows(n)] : n \in 1..MaxRows}
         \cup [1..2 -> LevelsOfRows(1)]

InitComputeValue ==
  /\ IdleBlockIndex
  /\ IdleSaturation
  /\ IdleComparison
  /\ IdleEngine
  /\ IdleIterations
  /\ fnOp = "computeValue"
  /\ fnIn \in [computeJac : BOOLEAN, thr : Thresholds, datas : LevelStacks]
  /\ fnOut = <<>>
  /\ fnDone = FALSE

CallComputeValue ==
  /\ fnOp = "computeValue" /\ ~fnDone
  /\ fnOut' = computeValue(fnIn.computeJac, fnIn.datas, fnIn.thr)
  /\ fnDone' = TRUE
  /\ UNCHANGED <<fnOp, fnIn>>
  /\ UNCHANGED <<biVars, satVars, cmpVars, engVars, itVars>>

NextComputeValue == CallComputeValue

SpecComputeValue == InitComputeValue /\ [][NextComputeValue]_vars

(***************************************************************************)
(* Claims about computeValue (checked under SpecComputeValue).             *)
(***************************************************************************)
\* C12 as stated: after computeValue every error row of type EqualToZero is
\* 0, whatever the value of the function and the threshold.
C12_EqualToZeroRowsZeroed ==
  (fnOp = "computeValue" /\ fnDone) =>
    \A i \in 1..Len(fnIn.datas) :
      \A k \in 1..Len(fnIn.datas[i].comparison) :
        fnIn.datas[i].comparison[k] = "EqualToZero" => fnOut[i].error[k] = 0

\* C12: after computeValue every error row of type EqualToZero holds what an
\* Equality row holds: output - rightHandSide when the row is active and 0
\* when it is not, whatever the threshold; its Jacobian row, when the
\* Jacobian is computed, is the row of the function.
C12_EqualToZeroRowsKept ==
  (fnOp = "computeValue" /\ fnDone) =>
    \A i \in 1..Len(fnIn.datas) :
      LET d == fnIn.datas[i]
      IN  \A k \in 1..Len(d.comparison) :
            d.comparison[k] = "EqualToZero" =>
              /\ fnOut[i].error[k] =
                   IF d.activeRows[k] THEN d.output[k] - d.rightHandSide[k]
                   ELSE 0
              /\ fnIn.computeJac => fnOut[i].jacobian[k] = d.fjacobian[k]

\* a level with an active EqualToZero row where the function is not 0 and
\* a Superior row at the threshold, which has been zeroed
C12_Witness ==
  /\ fnOp = "computeValue" /\ fnDone /\ fnIn.computeJac /\ fnIn.thr > 0
  /\ Len(fnIn.datas) = 1
  /\ fnIn.datas[1].comparison = <<"EqualToZero", "Superior">>
  /\ fnIn.datas[1].activeRows = <<TRUE, TRUE>>
  /\ fnIn.datas[1].output[1] # 0 /\ fnIn.datas[1].output[2] = fnIn.thr
  /\ fnOut[1].error = <<fnIn.datas[1].output[1], 0>>
  /\ fnOut[1].reducedJ = <<FunctionJacobianRow, ZeroRow>>

(***************************************************************************)
(* computeDescentDirection.  The engine is reduced to what the function    *)
(* reads and writes: the free variables (columns of the configuration      *)
(* space, from 1), and for every level the reduced Jacobian reducedJ (its  *)
(* rows are the active rows, its columns the free variables), the error at *)
(* the active rows, maxRank and the last decomposition svd (its rank and   *)
(* singular values); decomposed tells whether the level has been           *)
(* decomposed in the last call.                                            *)
(*                                                                         *)
(* The singular value decomposition is the one of Eigen::JacobiSVD, which  *)
(* is computed here for the matrices whose non-zero rows are multiples of  *)
(* distinct unit vectors: the singular values are the absolute values of   *)
(* the multipliers, the least-squares solution divides the right-hand side *)
(* by them, and the kernel is spanned by the unit vectors of the columns   *)
(* that are 0.  A projector is a matrix whose columns are unit vectors; it *)
(* is given by the sequence of the columns they select.                    *)
(***************************************************************************)
\* std::numeric_limits<value_type>::max ()
ValueMax == 1000

Zero(n) == [k \in 1..n |-> 0]

Abs(x) == IF x < 0 THEN 0 - x ELSE x

RECURSIVE Dot(_, _, _)
Dot(a, b, k) == IF k > Len(a) THEN 0 ELSE a[k] * b[k] + Dot(a, b, k + 1)

squaredNorm(v) == Dot(v, v, 1)

\* the rows of m that are not 0
NonZeroRows(m) == {r \in 1..Len(m) : \E c \in 1..Len(m[r]) : m[r][c] # 0}

\* svd.rank ()
rank(m) == Cardinality(NonZeroRows(m))

\* the multiplier of the row r of m
Multiplier(m, r) == LET c == CHOOSE c \in 1..Len(m[r]) : m[r][c] # 0 IN Abs(m[r][c])

\* svd.singularValues (): min (rows, cols) values in decreasing order
RECURSIVE SortedMultipliers(_, _)
SortedMultipliers(m, rows) ==
  IF rows = {} THEN <<>>
  ELSE LET r == CHOOSE r \in rows :
                  \A q \in rows : Multiplier(m, r) >= Multiplier(m, q)
       IN  <<Multiplier(m, r)>> \o SortedMultipliers(m, rows \ {r})

singularValues(m, cols) ==
  LET s == SortedMultipliers(m, NonZeroRows(m))
  IN  s \o Zero(Min(Len(m), cols) - Len(s))

\* svd.solve (b): the least-squares solution of least norm
solve(m, cols, b) ==
  [c \in 1..cols |->
     IF \E r \in 1..Len(m) : m[r][c] # 0
     THEN LET r == CHOOSE r \in 1..Len(m) : m[r][c] # 0 IN b[r] \div m[r][c]
     ELSE 0]

\* getV2 (svd, rank): the columns of V from rank on, a basis of the kernel
RECURSIVE getV2(_, _, _)
getV2(m, cols, c) ==
  IF c > cols THEN <<>>
  ELSE IF \E r \in 1..Len(m) : m[r][c] # 0 THEN getV2(m, cols, c + 1)
       ELSE <<c>> \o getV2(m, cols, c + 1)

\* d.reducedJ * *projector
TimesProjector(m, projector) ==
  [r \in 1..Len(m) |-> [k \in 1..Len(projector) |-> m[r][projector[k]]]]

\* *projector * v
ProjectorTimes(projector, cols, v) ==
  [c \in 1..cols |->
     IF \E k \in 1..Len(projector) : projector[k] = c
     THEN v[CHOOSE k \in 1..Len(projector) : projector[k] = c]
     ELSE 0]

\* *projector * getV2 (svd, rank)
ProjectorTimesV2(projector, v2) == [k \in 1..Len(v2) |-> projector[v2[k]]]

\* the projector NULL
NULL == <<0>>

\* the loop of computeDescentDirection over the levels from level i on (the
\* levels are numbered from 1 here), for an engine of more than one level
RECURSIVE descentLoop(_, _, _)
descentLoop(st, projector, i) ==
  IF i > Len(st.datas) THEN st
  ELSE
    LET d     == st.datas[i]
        cols  == Len(st.freeVariables_)
        first == (i = 1)
        last  == (i = Len(st.datas))
        plain == first \/ projector = NULL
        m     == IF plain THEN d.reducedJ
                 ELSE TimesProjector(d.reducedJ, projector)
        mcols == IF plain THEN cols ELSE Len(projector)
        err   == IF first THEN [r \in 1..Len(d.error) |-> 0 - d.error[r]]
                 ELSE [r \in 1..Len(d.error) |->
                         (0 - d.error[r]) - Dot(d.reducedJ[r], st.dqSmall_, 1)]
        x     == solve(m, mcols, err)
        incr  == IF plain THEN x ELSE ProjectorTimes(projector, cols, x)
        dqSmall == IF first THEN x
                   ELSE [c \in 1..cols |-> st.dqSmall_[c] + incr[c]]
        rk    == rank(m)
        maxRank == Max(d.maxRank, rk)
        sigma == IF maxRank > 0
                 THEN Min(st.sigma_, singularValues(m, mcols)[maxRank])
                 ELSE st.sigma_
        st1   == [st EXCEPT !.datas[i].maxRank = maxRank,
                            !.datas[i].svd =
                               [rank |-> rk,
                                singularValues |-> singularValues(m, mcols)],
                            !.datas[i].decomposed = TRUE,
                            !.sigma_ = sigma,
                            !.dqSmall_ = dqSmall]
        v2    == getV2(m, mcols, 1)
        PK    == IF projector = NULL THEN v2
                 ELSE ProjectorTimesV2(projector, v2)
    IN  IF Len(d.reducedJ) = 0 THEN descentLoop(st, projector, i + 1)
        ELSE IF st.solveLevelByLevel_
                /\ squaredNorm(err) > st.squaredErrorThreshold_ THEN st1
        ELSE IF last THEN st1
        ELSE IF mcols = rk THEN st1
        ELSE descentLoop(st1, PK, i + 1)

\* mutant: maxRank is the rank of the last decomposition
descentOneLevelLastRank(st) ==
  LET d    == st.datas[1]
      cols == Len(st.freeVariables_)
      err  == [r \in 1..Len(d.error) |-> 0 - d.error[r]]
      rk   == rank(d.reducedJ)
      maxRank == rk
  IN  [st EXCEPT !.datas[1].maxRank = maxRank,
                 !.datas[1].svd =
                    [rank |-> rk,
                     singularValues |-> singularValues(d.reducedJ, cols)],
                 !.datas[1].decomposed = TRUE,
                 !.dqSmall_ = solve(d.reducedJ, cols, err),
                 !.sigma_ = IF maxRank > 0
                            THEN Min(st.sigma_,
                                     singularValues(d.reducedJ, cols)[maxRank])
                            ELSE st.sigma_]

\* the branch of computeDescentDirection for an engine of one level
descentOneLevel(st) ==
  LET d    == st.datas[1]
      cols == Len(st.freeVariables_)
      err  == [r \in 1..Len(d.error) |-> 0 - d.error[r]]
      rk   == rank(d.reducedJ)
      maxRank == Max(d.maxRank, rk)
  IN  [st EXCEPT !.datas[1].maxRank = maxRank,
                 !.datas[1].svd =
                    [rank |-> rk,
                     singularValues |-> singularValues(d.reducedJ, cols)],
                 !.datas[1].decomposed = TRUE,
                 !.dqSmall_ = solve(d.reducedJ, cols, err),
                 !.sigma_ = IF maxRank > 0
                            THEN Min(st.sigma_,
                                     singularValues(d.reducedJ, cols)[maxRank])
                            ELSE st.sigma_]

\* mutant: the step is written at the first columns
expandDqSmallFirstColumns(st) ==
  [st EXCEPT !.dq_ =
     [c \in 1..Len(st.dq_) |->
        IF c <= Len(st.dqSmall_) THEN st.dqSmall_[c] ELSE st.dq_[c]]]

\* HierarchicalIterative::expandDqSmall: dqSmall_ is written into dq_ at the
\* free variables
expandDqSmall(st) ==
  [st EXCEPT !.dq_ =
     [c \in 1..Len(st.dq_) |->
        IF \E k \in 1..Len(st.freeVariables_) : st.freeVariables_[k] = c
        THEN st.dqSmall_[CHOOSE k \in 1..Len(st.freeVariables_) :
                           st.freeVariables_[k] = c]
        ELSE st.dq_[c]]]

\* the engine at the start of a call: no level has been decomposed in it
Called(st) ==
  [st EXCEPT !.datas = [i \in 1..Len(st.datas) |->
                          [st.datas[i] EXCEPT !.decomposed = FALSE]]]

\* mutant: sigma_ is kept from call to call
computeDescentDirectionKeepSigma(st) ==
  IF Len(st.datas) = 0 THEN [st EXCEPT !.dq_ = Zero(Len(st.dq_))]
  ELSE IF Len(st.datas) = 1 THEN expandDqSmall(descentOneLevel(Called(st)))
  ELSE expandDqSmall(descentLoop(Called(st), NULL, 1))

\* HierarchicalIterative::computeDescentDirection
computeDescentDirection(st) ==
  LET st0 == [Called(st) EXCEPT !.sigma_ = ValueMax]
  IN  IF Len(st.datas) = 0 THEN [st0 EXCEPT !.dq_ = Zero(Len(st.dq_))]
      ELSE IF Len(st.datas) = 1 THEN expandDqSmall(descentOneLevel(st0))
      ELSE expandDqSmall(descentLoop(st0, NULL, 1))

\* a decomposition that has not been computed
NoSvd == [rank |-> 0, singularValues |-> <<>>]

\* the part of HierarchicalIterative::update that the iterations see:
\* every level gets a new decomposition and its maxRank is set to 0, dq_ is
\* set to 0; dqSmall_ and the matrices are resized to the size they have and
\* keep their coefficients
updateIterations(st) ==
  [st EXCEPT !.datas = [i \in 1..Len(st.datas) |->
                          [st.datas[i] EXCEPT !.maxRank = 0, !.svd = NoSvd]],
             !.dq_ = Zero(ConfigSpace.nv)]

(***************************************************************************)
(* The iterations of a solve: computeValue gives every level a reduced     *)
(* Jacobian and an error, computeDescentDirection computes the step, and   *)
(* update may be called between two solves.  A level has at most one       *)
(* active row.  The run starts after update: dq_ is 0, dqSmall_ has been   *)
(* allocated and holds whatever the memory held.                           *)
(***************************************************************************)
\* the engines: the number of active rows of every level
ActiveRows == {<<>>, <<0>>, <<1>>, <<0, 0>>, <<0, 1>>, <<1, 0>>, <<1, 1>>}

Multipliers == {1, 2}
LevelErrors == {0, 2}
UninitializedValues == {0, 1}

FreeVariableSets == {<<>>, <<1>>, <<1 + 1>>, <<1, 1 + 1>>}

\* the rows a reduced Jacobian of cols columns can have
ReducedRows(cols) ==
  {Zero(cols)} \cup
  {[c \in 1..cols |-> IF c = a THEN s ELSE 0] : a \in 1..cols, s \in Multipliers}

\* the levels with rows active rows, as computeValue leaves them
LevelValues(rows, cols) ==
  [reducedJ : [1..rows -> ReducedRows(cols)], error : [1..rows -> LevelErrors]]

\* the values of the levels of an engine whose level i has rows[i] active rows
StackValues(rows, cols) ==
  {values \in [1..Len(rows) -> UNION {LevelValues(r, cols) : r \in {0, 1}}] :
     \A i \in 1..Len(rows) : Len(values[i].reducedJ) = rows[i]}

InitIterations ==
  /\ IdleBlockIndex
  /\ IdleSaturation
  /\ IdleComparison
  /\ IdleEngine
  /\ IdleCalls
  /\ \E free \in FreeVariableSets, rows \in ActiveRows :
       \E values \in StackValues(rows, Len(free)) :
         it \in [op : {"update"},
                 freeVariables_ : {free},
                 solveLevelByLevel_ : BOOLEAN,
                 squaredErrorThreshold_ : {0},
                 datas : {[i \in 1..Len(rows) |->
                             [reducedJ |-> values[i].reducedJ,
                              error |-> values[i].error,
                              maxRank |-> 0, svd |-> NoSvd,
                              decomposed |-> FALSE]]},
                 sigma_ : {0},
                 dq_ : {Zero(ConfigSpace.nv)},
                 dqSmall_ : [1..Len(free) -> UninitializedValues],
                 solving : {FALSE}]

\* computeValue<true> at some configuration: every level gets the error and
\* the reduced Jacobian of its functions there
IterationComputeValue ==
  \E values \in StackValues([i \in 1..Len(it.datas) |->
                                 Len(it.datas[i].reducedJ)],
                              Len(it.freeVariables_)) :
    /\ it' = [it EXCEPT !.op = "computeValue",
                        !.datas = [i \in 1..Len(it.datas) |->
                                     [it.datas[i] EXCEPT
                                        !.reducedJ = values[i].reducedJ,
                                        !.error = values[i].error]]]
    /\ UNCHANGED <<biVars, satVars, cmpVars, engVars, fnVars>>

IterationComputeDescentDirection ==
  LET st == computeDescentDirection(it)
  IN  /\ it' = [st EXCEPT !.op = "computeDescentDirection", !.solving = TRUE]
      /\ UNCHANGED <<biVars, satVars, cmpVars, engVars, fnVars>>

IterationUpdate ==
  /\ it' = [updateIterations(it) EXCEPT !.op = "update", !.solving = FALSE]
  /\ UNCHANGED <<biVars, satVars, cmpVars, engVars, fnVars>>

NextIterations ==
  \/ IterationComputeValue
  \/ IterationComputeDescentDirection
  \/ IterationUpdate

SpecIterations == InitIterations /\ [][NextIterations]_vars

(***************************************************************************)
(* C13: sigma() across the calls of computeDescentDirection                *)
(***************************************************************************)
\* the levels that the last call of computeDescentDirection has decomposed
\* and whose maxRank is positive
SigmaLevels == {i \in 1..Len(it.datas) :
                  it.datas[i].decomposed /\ it.datas[i].maxRank > 0}

\* the smallest value of a non-empty set of numbers
Smallest(S) == CHOOSE x \in S : \A y \in S : x <= y

\* C13 as stated: during one solve, a call of computeDescentDirection never
\* leaves sigma() greater than the call before it left it (sigma() is the
\* smallest singular value seen so far)
C13_SigmaNeverIncreases ==
  [][(it.solving /\ it'.op = "computeDescentDirection")
       => it'.sigma_ <= it.sigma_]_vars

\* C13: sigma_ is reset to the largest value at the start of every call of
\* computeDescentDirection; after the call it is the smallest, over the
\* levels decomposed in THAT call whose maxRank is positive, of the singular
\* value of index maxRank - 1, and the largest value if there is no such
\* level
C13_SigmaOfLastCall ==
  it.op = "computeDescentDirection" =>
    it.sigma_ =
      Smallest({ValueMax} \cup
               {it.datas[i].svd.singularValues[it.datas[i].maxRank] :
                  i \in SigmaLevels})

\* a later call of a solve: a level had a greater rank in a call before,
\* and the singular value at maxRank - 1 is 0 now
C13_Witness ==
  /\ it.op = "computeDescentDirection"
  /\ it.sigma_ = 0
  /\ \E i \in SigmaLevels : it.datas[i].svd.rank < it.datas[i].maxRank

(***************************************************************************)
(* C15: dq_ outside the free variables                                     *)
(***************************************************************************)
\* the columns of the configuration space that are free variables
FreeColumns == {it.freeVariables_[k] : k \in 1..Len(it.freeVariables_)}

\* C15: after any sequence of update () and computeDescentDirection (), the
\* coefficients of dq_ at the indices that are not free variables are 0
C15_DqZeroOutsideFreeVariables ==
  \A c \in 1..Len(it.dq_) : c \notin FreeColumns => it.dq_[c] = 0

\* a step that moves the only free variable, the second column
C15_Witness ==
  /\ it.op = "computeDescentDirection"
  /\ it.freeVariables_ = <<1 + 1>>
  /\ it.dq_[1 + 1] # 0
  /\ it.dq_[1] = 0

(***************************************************************************)
(* C17: maxRank of a level                                                 *)
(***************************************************************************)
\* C17: a call of computeDescentDirection never lowers maxRank of a level:
\* it leaves it as it is at the levels it does not decompose, and raises it
\* to the rank of the decomposition where that rank is greater; update ()
\* is the only operation that lowers it, to 0
C17_MaxRankHighWaterMark ==
  [][/\ Len(it'.datas) = Len(it.datas)
     /\ \A i \in 1..Len(it.datas) :
          /\ it'.op = "computeDescentDirection" =>
               it'.datas[i].maxRank =
                 IF it'.datas[i].decomposed
                 THEN Max(it.datas[i].maxRank, it'.datas[i].svd.rank)
                 ELSE it.datas[i].maxRank
          /\ it'.op = "computeValue" =>
               it'.datas[i].maxRank = it.datas[i].maxRank
          /\ it'.op = "update" => it'.datas[i].maxRank = 0
          /\ it'.datas[i].maxRank < it.datas[i].maxRank =>
               it'.op = "update"]_vars

\* a call where the rank of a level is below the rank it had in a call
\* before: maxRank keeps the greater one
C17_Witness ==
  /\ it.op = "computeDescentDirection"
  /\ \E i \in 1..Len(it.datas) :
       /\ it.datas[i].decomposed
       /\ it.datas[i].svd.rank = 0
       /\ it.datas[i].maxRank = 1

(***************************************************************************)
(* C18: the step and the former value of dqSmall_                          *)
(***************************************************************************)
\* the values dqSmall_ can hold from an earlier call
FormerSteps == [1..Len(it.dqSmall_) -> UninitializedValues]

\* C18: the step dq_ that a call of computeDescentDirection produces is the
\* one the call produces from the same level data with any other value of
\* dqSmall_, also when the first level, or every level, has no active rows
C18_StepIndependentOfDqSmall ==
  [][it'.op = "computeDescentDirection" =>
       \A former \in FormerSteps :
         computeDescentDirection([it EXCEPT !.dqSmall_ = former]).dq_ = it'.dq_]_vars

(***************************************************************************)
(* computeError.  A level is given by the output derivative sizes nv of    *)
(* its constraints, in order, and by its error vector.  The outcome tells  *)
(* the squared error, the levels that have been read (numbered from 0) and *)
(* whether the program has been stopped.                                   *)
(***************************************************************************)
\* the number of levels ranges over 0 .. MaxLevels
MaxLevels == 2

\* the largest value of std::size_t, here the largest integer of the checker
SizeMax == 2147483647

\* a - b in std::size_t
SizeMinus(a, b) == IF a >= b THEN a - b ELSE (SizeMax - (b - a)) + 1

SquaredNorms == {0, 1, 4}

\* the sum of a sequence of numbers
RECURSIVE SumSeq(_)
SumSeq(s) == IF s = <<>> THEN 0 ELSE Head(s) + SumSeq(Tail(s))

\* the loop over the constraints of a level, from constraint j on
RECURSIVE computeErrorLevel(_, _, _, _)
computeErrorLevel(level, j, iv, sq) ==
  IF j > Len(level.nv) THEN sq
  ELSE LET nv == level.nv[j]
       IN  computeErrorLevel(level, j + 1, iv + nv,
             Max(sq, squaredNorm(SubSeq(level.error, iv + 1, iv + nv))))

\* the loop over the levels, from level i on (from 0); the outcomes of the
\* read of a level that the engine does not have are any: the program is
\* stopped, or it goes on with any value
RECURSIVE computeErrorLoop(_, _, _, _, _)
computeErrorLoop(stacks, i, end, sq, read) ==
  IF i >= end
  THEN {[squaredNorm_ |-> sq, read |-> read, stopped |-> FALSE]}
  ELSE IF i >= Len(stacks)
       THEN {[squaredNorm_ |-> sq, read |-> read \cup {i}, stopped |-> TRUE]}
            \cup {[squaredNorm_ |-> s, read |-> read \cup {i},
                   stopped |-> FALSE] : s \in SquaredNorms}
       ELSE computeErrorLoop(stacks, i + 1, end,
                             computeErrorLevel(stacks[i + 1], 1, 0, sq),
                             read \cup {i})

\* HierarchicalIterative::computeError: the outcomes of the call
computeError(stacks, lastIsOptional_) ==
  LET end == IF lastIsOptional_ THEN SizeMinus(Len(stacks), 1)
             ELSE Len(stacks)
  IN  computeErrorLoop(stacks, 0, end, 0, {})

LevelErrorValues == {0 - 1, 0, 2}

ConstraintSizes == {<<>>, <<1>>, <<2>>, <<1, 1>>}

ErrorLevels ==
  UNION {[nv : {sizes}, error : [1..SumSeq(sizes) -> LevelErrorValues]] :
           sizes \in ConstraintSizes}

InitComputeError ==
  /\ IdleBlockIndex
  /\ IdleSaturation
  /\ IdleComparison
  /\ IdleEngine
  /\ IdleIterations
  /\ fnOp = "computeError"
  /\ \E n \in 0..MaxLevels :
       fnIn \in [lastIsOptional_ : BOOLEAN, stacks : [1..n -> ErrorLevels]]
  /\ fnOut = <<>>
  /\ fnDone = FALSE

CallComputeError ==
  /\ fnOp = "computeError" /\ ~fnDone
  /\ fnOut' \in computeError(fnIn.stacks, fnIn.lastIsOptional_)
  /\ fnDone' = TRUE
  /\ UNCHANGED <<fnOp, fnIn>>
  /\ UNCHANGED <<biVars, satVars, cmpVars, engVars, itVars>>

NextComputeError == CallComputeError

SpecComputeError == InitComputeError /\ [][NextComputeError]_vars

\* the levels that take part in the error, numbered from 0
ErrorLevelIndices(n, lastIsOptional_) ==
  {i \in 0..(n - 1) : lastIsOptional_ => i < n - 1}

\* the squared norms of the segments of the constraints of a level
SegmentNorms(level) ==
  {squaredNorm(SubSeq(level.error,
                      SumSeq(SubSeq(level.nv, 1, j - 1)) + 1,
                      SumSeq(SubSeq(level.nv, 1, j)))) : j \in 1..Len(level.nv)}

\* the greatest number of a set of naturals, 0 if the set is empty
Greatest(S) == IF S = {} THEN 0 ELSE CHOOSE x \in S : \A y \in S : y <= x

\* C16: for any number of levels n >= 0 and either value of lastIsOptional,
\* computeError sets the squared error to the greatest squared norm of the
\* segments of the constraints of the levels 0..n-1 (0..n-2 when
\* lastIsOptional), to 0 when no level takes part, and reads no level
\* outside 0..n-1
C16_ComputeErrorIsMaxOverLevels ==
  (fnOp = "computeError" /\ fnDone) =>
    LET n == Len(fnIn.stacks)
    IN  /\ ~fnOut.stopped
        /\ fnOut.read \subseteq 0..(n - 1)
        /\ fnOut.squaredNorm_ =
             Greatest(UNION {SegmentNorms(fnIn.stacks[i + 1]) :
                               i \in ErrorLevelIndices(n, fnIn.lastIsOptional_)})

\* C16 holds of the engines that have a level, and of the engine without
\* level when lastIsOptional is false
C16_ComputeErrorWithLevels ==
  (fnOp = "computeError" /\ fnDone
     /\ (Len(fnIn.stacks) > 0 \/ ~fnIn.lastIsOptional_)) =>
    C16_ComputeErrorIsMaxOverLevels

(***************************************************************************)
(* save and load.  The archive holds what save writes, in order.  load is  *)
(* called on an engine that the archive library has built without          *)
(* argument: its containers are empty and its sizes are 0.                 *)
(***************************************************************************)
\* HierarchicalIterative::save
save(eng) ==
  [squaredErrorThreshold_ |-> eng.squaredErrorThreshold_,
   inequalityThreshold_ |-> eng.inequalityThreshold_,
   maxIterations_ |-> eng.maxIterations_,
   configSpace_ |-> eng.configSpace_,
   lastIsOptional_ |-> eng.lastIsOptional_,
   constraints_ |-> eng.constraints_,
   priorities |->
     [i \in 1..Len(eng.constraints_) |->
        LET c == FindIf(eng.priority_, eng.constraints_[i].function)
        IN  IF c = End THEN 0 ELSE eng.priority_[c]]]

\* the engine built without argument
FreshEngine ==
  [squaredErrorThreshold_ |-> 0, inequalityThreshold_ |-> 0,
   maxIterations_ |-> 0, configSpace_ |-> [nq |-> 0, nv |-> 0],
   lastIsOptional_ |-> FALSE,
   freeVariables_ |-> <<>>,
   saturationSize |-> 0, qSatSize |-> 0,
   stacks_ |-> <<>>, datas_ |-> <<>>, constraints_ |-> <<>>,
   priority_ |-> EmptyMap, iq_ |-> EmptyMap, iv_ |-> EmptyMap,
   dimension_ |-> 0, dq_ |-> <<>>]

\* freeVariables_.addRow (row, count)
addRow(rows, row, count) == Append(rows, <<row, count>>)

\* the loop of load and of the construction of an engine: add every
\* constraint, in order, at its priority
RECURSIVE addAll(_, _, _, _)
addAll(eng, constraints, priorities, i) ==
  IF i > Len(constraints) THEN eng
  ELSE addAll(add(eng, constraints[i], priorities[i]).eng,
              constraints, priorities, i + 1)

\* HierarchicalIterative::load
load(eng, ar) ==
  LET e == [eng EXCEPT
              !.squaredErrorThreshold_ = ar.squaredErrorThreshold_,
              !.inequalityThreshold_ = ar.inequalityThreshold_,
              !.maxIterations_ = ar.maxIterations_,
              !.configSpace_ = ar.configSpace_,
              !.lastIsOptional_ = ar.lastIsOptional_,
              !.saturationSize = ar.configSpace_.nq,
              !.qSatSize = ar.configSpace_.nq,
              !.freeVariables_ = addRow(eng.freeVariables_, 0,
                                        ar.configSpace_.nv)]
  IN  addAll(e, ar.constraints_, ar.priorities, 1)

\* the configuration spaces: R^2 and R x SO(2)
ConfigSpaces == {[nq |-> 1 + 1, nv |-> 1 + 1], [nq |-> 1 + 1 + 1, nv |-> 1 + 1]}

\* the largest iteration cap
MaxIterations == 1

\* the constraints added to an engine, in order: no two have equal functions
AddedConstraints ==
  {cs \in SeqsUpTo(Constraints, MaxLen) :
     \A i, j \in 1..Len(cs) :
       i # j => ~FunctionEq(cs[i].function, cs[j].function)}

\* the engine built on configSpace by the setters and add
Built(in) ==
  addAll([HierarchicalIterative(in.configSpace) EXCEPT
            !.squaredErrorThreshold_ = in.squaredErrorThreshold_,
            !.inequalityThreshold_ = in.inequalityThreshold_,
            !.maxIterations_ = in.maxIterations_,
            !.lastIsOptional_ = in.lastIsOptional_],
         in.constraints, in.priorities, 1)

InitSerialization ==
  /\ IdleBlockIndex
  /\ IdleSaturation
  /\ IdleComparison
  /\ IdleEngine
  /\ IdleIterations
  /\ fnOp = "load"
  /\ \E cs \in AddedConstraints :
       fnIn \in [configSpace : ConfigSpaces,
                 squaredErrorThreshold_ : Thresholds,
                 inequalityThreshold_ : Thresholds,
                 maxIterations_ : 0..MaxIterations,
                 lastIsOptional_ : BOOLEAN,
                 constraints : {cs},
                 priorities : [1..Len(cs) -> Priorities]]
  /\ fnOut = <<>>
  /\ fnDone = FALSE

\* save the engine built from the input and load the archive into a fresh
\* engine
CallSaveLoad ==
  /\ fnOp = "load" /\ ~fnDone
  /\ fnOut' = load(FreshEngine, save(Built(fnIn)))
  /\ fnDone' = TRUE
  /\ UNCHANGED <<fnOp, fnIn>>
  /\ UNCHANGED <<biVars, satVars, cmpVars, engVars, itVars>>

NextSerialization == CallSaveLoad

SpecSerialization == InitSerialization /\ [][NextSerialization]_vars

\* C14: the engine loaded from the archive of an engine has the state of
\* the engine built on the same configuration space with the same
\* thresholds, iteration cap, optional-last flag and constraints added in
\* the same order at the same priorities: the same levels with the same
\* constraints in the same order, freeVariables_ = [0, nv), and saturation_
\* and qSat_ of the sizes the constructor gives them
C14_LoadedEqualsBuilt ==
  (fnOp = "load" /\ fnDone) =>
    LET built == Built(fnIn)
    IN  /\ fnOut.stacks_ = built.stacks_
        /\ fnOut.constraints_ = built.constraints_
        /\ fnOut.squaredErrorThreshold_ = built.squaredErrorThreshold_
        /\ fnOut.inequalityThreshold_ = built.inequalityThreshold_
        /\ fnOut.maxIterations_ = built.maxIterations_
        /\ fnOut.lastIsOptional_ = built.lastIsOptional_
        /\ fnOut.freeVariables_ = <<<<0, fnIn.configSpace.nv>>>>
        /\ fnOut.saturationSize = built.saturationSize
        /\ fnOut.qSatSize = built.qSatSize

(***************************************************************************)
(* C20: add and the right-hand sides (checked under SpecRightHandSide)     *)
(***************************************************************************)
\* C20: after every call of add that succeeds, the right-hand side of every
\* level is the neutral element, also at the levels the new constraint does
\* not belong to, and getRightHandSide returns the neutral element for
\* every constraint of the engine
C20_AddResetsRightHandSides ==
  (call.op = "add" /\ ~call.raised) =>
    /\ \A i \in 1..Len(solver.datas_) :
         \A k \in 1..Len(solver.datas_[i].rightHandSide) :
           solver.datas_[i].rightHandSide[k] = 0
    /\ \A i \in 1..Len(solver.constraints_) :
         LET r == getRightHandSide(solver, solver.constraints_[i])
         IN  r.ret /\ \A k \in 1..Len(r.rightHandSide) : r.rightHandSide[k] = 0

\* a constraint has been added alone at its level to an engine that stored a
\* right-hand side other than the neutral element at another level
C20_Witness ==
  /\ call.op = "add" /\ ~call.raised
  /\ call.hadRightHandSide
  /\ \E l \in 1..Len(solver.stacks_) :
       /\ solver.stacks_[l] = <<call.constraint>>
       /\ \E m \in 1..Len(solver.stacks_) : m # l /\ solver.stacks_[m] # <<>>

(***************************************************************************)
(* The right-hand side of the whole engine: rightHandSide (vectorIn_t) and *)
(* rightHandSide () const.  The output spaces are vector spaces: the       *)
(* logarithm of an element is the element.  A segment of an Eigen vector   *)
(* that is out of range stops the program when the assertions are compiled *)
(* (no NDEBUG); when they are not, the write goes beyond the storage of    *)
(* the vector, with any outcome: the program is stopped, or it goes on     *)
(* with any value in the right-hand side of the level.                     *)
(***************************************************************************)
RightHandSideEntries == {0, 1}

\* the loop of rightHandSide (vectorIn_t) from level i on (the levels are
\* numbered from 1 here): the outcomes, each the engine after and whether
\* the program has been stopped
RECURSIVE rightHandSideLoop(_, _, _, _, _, _)
rightHandSideLoop(eng, rightHandSide_, NDEBUG, i, iq, iv) ==
  IF i > Len(eng.stacks_)
  THEN {[eng |-> eng,
         aborted |-> ~NDEBUG /\ iq # Len(rightHandSide_)]}
  ELSE
    LET d       == eng.datas_[i]
        nq      == d.space.nq
        nv      == d.space.nv
        output  == SubSeq(rightHandSide_, iq + 1, iq + nq)
        inRange == iq + nq <= Len(d.rightHandSide)
        error   == output
        checked == \A k \in 0..(nv - 1) :
                     d.comparison[iv + k + 1] # "Equality" => error[k + 1] = 0
        written == [eng EXCEPT !.datas_[i].rightHandSide =
                      SetSegment(d.rightHandSide, iq, nq, error)]
    IN  IF inRange
        THEN IF ~NDEBUG /\ ~checked
             THEN {[eng |-> eng, aborted |-> TRUE]}
             ELSE rightHandSideLoop(written, rightHandSide_, NDEBUG,
                                    i + 1, iq + nq, iv + nv)
        ELSE IF ~NDEBUG THEN {[eng |-> eng, aborted |-> TRUE]}
        ELSE IF nq = 0
             THEN rightHandSideLoop(eng, rightHandSide_, NDEBUG,
                                    i + 1, iq + nq, iv + nv)
        ELSE {[eng |-> eng, aborted |-> TRUE]} \cup
             UNION {rightHandSideLoop(
                      [eng EXCEPT !.datas_[i].rightHandSide = any],
                      rightHandSide_, NDEBUG, i + 1, iq + nq, iv + nv) :
                    any \in [1..Len(d.rightHandSide) -> RightHandSideEntries]}

\* HierarchicalIterative::rightHandSide (vectorIn_t rightHandSide)
rightHandSideOfLevels(eng, rightHandSide_, NDEBUG) ==
  rightHandSideLoop(eng, rightHandSide_, NDEBUG, 1, 0, 0)

\* HierarchicalIterative::rightHandSideSize
RECURSIVE rightHandSideSize(_)
rightHandSideSize(stacks) ==
  IF stacks = <<>> THEN 0 ELSE SumNq(Head(stacks)) + rightHandSideSize(Tail(stacks))

\* HierarchicalIterative::rightHandSide () const, from level i on
RECURSIVE rightHandSideVector(_, _)
rightHandSideVector(eng, i) ==
  IF i > Len(eng.stacks_) THEN <<>>
  ELSE eng.datas_[i].rightHandSide \o rightHandSideVector(eng, i + 1)

\* solver.rightHandSide (v) for a vector v of the size of the right-hand
\* side of the engine
RightHandSideOfLevels ==
  \E v \in [1..rightHandSideSize(solver.stacks_) -> RightHandSideEntries] :
    \E r \in rightHandSideOfLevels(solver, v, ndebug) :
      /\ ~call.aborted
      /\ solver' = r.eng
      /\ call' = [NoCall EXCEPT !.op = "rightHandSide (vectorIn_t)",
                                !.rhs = v, !.ret = TRUE,
                                !.aborted = r.aborted]
      /\ UNCHANGED <<other, ndebug>>
      /\ UNCHANGED <<biVars, satVars, cmpVars, fnVars, itVars>>

NextRightHandSideOfLevels ==
  \/ Add
  \/ RightHandSideOfLevels

SpecRightHandSideOfLevels == InitEngine /\ [][NextRightHandSideOfLevels]_vars

\* the comparison types of the rows of the engine, level after level
RECURSIVE ComparisonOfLevels(_, _)
ComparisonOfLevels(eng, i) ==
  IF i > Len(eng.stacks_) THEN <<>>
  ELSE eng.datas_[i].comparison \o ComparisonOfLevels(eng, i + 1)

\* C19: for an engine of any number of levels and every vector v that is 0
\* on the rows that are not Equality rows, rightHandSide (v) completes and
\* rightHandSide () returns v after it: the segment of every level is stored
\* in the right-hand side of that level
C19_BulkRightHandSideRoundTrip ==
  (/\ call.op = "rightHandSide (vectorIn_t)"
   /\ \A k \in 1..Len(call.rhs) :
        ComparisonOfLevels(solver, 1)[k] # "Equality" => call.rhs[k] = 0) =>
    /\ ~call.aborted
    /\ rightHandSideVector(solver, 1) = call.rhs

\* C19 holds of the engines whose constraints are all at one level
C19_RoundTripOneLevel ==
  (/\ call.op = "rightHandSide (vectorIn_t)"
   /\ \A k \in 1..Len(call.rhs) :
        ComparisonOfLevels(solver, 1)[k] # "Equality" => call.rhs[k] = 0
   /\ \E l \in 1..Len(solver.stacks_) :
        \A m \in 1..Len(solver.stacks_) : m # l => solver.stacks_[m] = <<>>) =>
    /\ ~call.aborted
    /\ rightHandSideVector(solver, 1) = call.rhs

(***************************************************************************)
(* C21: the assertion of difference (segments, segment) (checked under     *)
(* SpecBlockIndex)                                                         *)
(***************************************************************************)
\* C21: the assertion of difference (segments a, segment b) holds for every
\* canonical a and every b: first = last, or last is the end of a, or first
\* is not the end of a and the end of *first is at least the start of *last
C21_DifferenceAssertionHolds ==
  (biDone /\ biOp = "differenceSI" /\ Canonical(biA)) =>
    differenceSIAssert(biA, biB)

====
